---- MODULE Spec2Model ----
\* Model of localstack/services/awslambda/invocation/docker_runtime_executor.py:
\* the per-version preparation pipeline (prepare_version / cleanup_version), the
\* naming helpers, and the DockerRuntimeExecutor lifecycle (start / stop /
\* invoke / get_address) against a docker client, a filesystem and an
\* executor endpoint.
EXTENDS Integers, Sequences, FiniteSets, TLC

\* ---------------------------------------------------------------- bounds
\* longest qualified ARN (in characters) drawn for the naming helpers
MaxArnLen == 2
\* invoke calls recorded per executor endpoint
MaxInvokes == 1
\* function versions the version-store specification keeps deployed at once
MaxDeployed == 1

\* ---------------------------------------------------------------- values
None == "None"
\* no value of a str-typed result
NoStr == <<>>

IMAGE_PREFIX == "amazon/aws-lambda-"
RAPID_ENTRYPOINT == "/var/rapid/init"

\* lambda_models.IMAGE_MAPPING: runtime identifier -> image postfix
IMAGE_MAPPING ==
  [r \in {"python3.9", "nodejs18.x"} |->
     IF r = "python3.9" THEN "python:3.9" ELSE "nodejs:18"]

\* ---------------------------------------------------------------- strings
\* a str is a sequence of one-character strings
ArnChars == {"f", "F", ":", "$", "_"}
RevChars == {"1", "2"}

\* str.replace(old, new) for a one-character old and new
Replace(s, old, new) == [k \in 1..Len(s) |-> IF s[k] = old THEN new ELSE s[k]]

\* str.lower()
Lower(s) == [k \in 1..Len(s) |-> IF s[k] = "F" THEN "f" ELSE s[k]]

\* the sanitised qualified ARN shared by both derived names
Sanitized(arn) == Replace(Replace(arn, ":", "_"), "$", "_")

\* src: get_path_for_function
get_path_for_function(fv) ==
  <<"/tmp", "/lambda/">> \o Sanitized(fv.qualified_arn) \o <<"_">>
     \o fv.internal_revision \o <<"/">>

\* src: get_image_name_for_function
get_image_name_for_function(fv) ==
  <<"localstack/lambda-">> \o Lower(Sanitized(fv.qualified_arn))

\* get_image_for_runtime without its check of the mapping entry
get_image_for_runtimeUnchecked(runtime) ==
  [raised |-> None,
   value |-> <<IMAGE_PREFIX, IF runtime \in DOMAIN IMAGE_MAPPING
                               THEN IMAGE_MAPPING[runtime] ELSE None>>]

\* src: get_image_for_runtime; a raise is a record with raised # None
get_image_for_runtime(runtime) ==
  IF runtime \notin DOMAIN IMAGE_MAPPING
    THEN [raised |-> "ValueError", value |-> NoStr]
    ELSE [raised |-> None, value |-> <<IMAGE_PREFIX, IMAGE_MAPPING[runtime]>>]

\* ---------------------------------------------------------------- versions
\* function versions drawn for the naming helpers
SeqsUpTo(S, n) == UNION {[1..k -> S] : k \in 1..n}

NameVersions ==
  [qualified_arn : SeqsUpTo(ArnChars, MaxArnLen),
   internal_revision : SeqsUpTo(RevChars, 1),
   runtime : {"python3.9"},
   archive : {{"handler.py"}}]

\* function versions the lifecycle model deploys: a supported runtime, an
\* unsupported one, and a version without runtime (custom image)
fvPy == [qualified_arn |-> <<"F", ":", "$">>, internal_revision |-> <<"1">>,
         runtime |-> "python3.9", archive |-> {"handler.py"}]
fvBad == [qualified_arn |-> <<"f", ":", "1">>, internal_revision |-> <<"1">>,
          runtime |-> "ruby1.0", archive |-> {"main.rb"}]
fvNone == [qualified_arn |-> <<"f", ":", "2">>, internal_revision |-> <<"1">>,
           runtime |-> None, archive |-> {"bootstrap"}]

\* a second revision of fvPy's function version
fvPy2 == [qualified_arn |-> <<"F", ":", "$">>, internal_revision |-> <<"2">>,
          runtime |-> "python3.9", archive |-> {"handler.py", "util.py"}]

Versions == {fvPy, fvPy2, fvBad, fvNone}
\* the versions the lifecycle specification runs executors of
MainVersions == {fvPy, fvBad, fvNone}

\* ---------------------------------------------------------------- state
VARIABLES
  prebuild,    \* config.LAMBDA_PREBUILD_IMAGES
  files,       \* filesystem: the staged artifact directory at each path
  images,      \* image names in the local docker image cache
  containers,  \* docker containers by name
  executors,   \* DockerRuntimeExecutor objects by id
  endpoints,   \* the ExecutorEndpoint owned by each executor
  builds,      \* history: outcome of the last image build per version
  hist,        \* history per executor: has a start() stored an IP, how the last start() ended, was stop() called
  run,         \* history: how far the calls made so far follow prepare, start, invoke, stop, cleanup
  last         \* the last call: operation, arguments, steps done, outcome

vars == <<prebuild, files, images, containers, executors, endpoints, builds, hist, run, last>>

Execs == {"e1", "e2"}
\* the executor the single-instance lifecycle specification drives
MainExecs == {"e1"}
Ports == {"p1", "p2"}
\* the ports free when the single-instance specification constructs its executor
MainPorts == {"p1"}
IPs == {"10.0.0.2", "10.0.0.3"}
Networks == {"bridge", "lambda-net"}
Envs == {"env"}
Keys == {"key"}
Vals == {"value"}
\* Dict[str, str] payloads
Payloads == UNION {[K -> Vals] : K \in SUBSET Keys}
\* values config.LAMBDA_TRUNCATE_STDOUT takes
TruncLens == {3, 100}

Paths == {get_path_for_function(v) : v \in Versions}
BaseImages == {get_image_for_runtime(r).value : r \in DOMAIN IMAGE_MAPPING}

\* a path that does not exist
NoDir == [exists |-> FALSE, code_dir |-> FALSE, code |-> {}, dockerfile |-> FALSE]
\* a container name docker does not know
NoContainer ==
  [status |-> "absent", image |-> NoStr, network |-> None, env |-> None,
   entrypoint |-> None, init |-> FALSE, code |-> {}, ip |-> None]
\* an executor id no object has been constructed for, and its endpoint
NoExec == [constructed |-> FALSE, function_version |-> fvPy, ip |-> None]
NoEndpoint ==
  [port |-> None, started |-> FALSE, container_address |-> None,
   invocations |-> <<>>]

\* no call sequence under way
NoRun == [stage |-> 0, version |-> fvPy, exec |-> None]

Range(s) == {s[k] : k \in 1..Len(s)}

\* the statements of prog that run: all before the first one that raises
RECURSIVE Completed(_, _)
Completed(prog, raises) ==
  IF prog = <<>> \/ Head(prog) \in raises THEN <<>>
  ELSE <<Head(prog)>> \o Completed(Tail(prog), raises)

\* the step that raised, or None when the whole program ran
Raised(prog, raises) ==
  IF Len(Completed(prog, raises)) = Len(prog) THEN None
  ELSE prog[Len(Completed(prog, raises)) + 1]

Init ==
  /\ prebuild \in BOOLEAN
  /\ files = [p \in Paths |-> NoDir]
  /\ images = {}
  /\ containers = [i \in Execs |-> NoContainer]
  /\ executors = [i \in Execs |-> NoExec]
  /\ endpoints = [i \in Execs |-> NoEndpoint]
  /\ builds = [v \in Versions |-> "none"]
  /\ hist = [i \in Execs |->
               [ip_stored |-> FALSE, last_start |-> "none", stopped |-> FALSE]]
  /\ run = NoRun
  /\ last = [op |-> "none"]

\* ---------------------------------------------------------------- executor
\* utils.net.get_free_tcp_port: a port no listener is bound to right now
FreePorts ==
  {p \in Ports : \A j \in Execs :
     ~endpoints[j].started \/ endpoints[j].port # p}

\* DockerRuntimeExecutor.__init__ with _build_executor_endpoint
Construct(i, fv, port) ==
  /\ ~executors[i].constructed
  /\ port \in FreePorts
  /\ executors' = [executors EXCEPT ![i] = [constructed |-> TRUE, function_version |-> fv, ip |-> None]]
  /\ endpoints' = [endpoints EXCEPT ![i] =
        [port |-> port, started |-> FALSE, container_address |-> None,
         invocations |-> <<>>]]
  /\ last' = [op |-> "__init__", exec |-> i, result |-> "ok"]
  /\ UNCHANGED <<prebuild, files, images, containers, builds, hist, run>>

\* DockerRuntimeExecutor.get_image
get_image(fv, pre) ==
  IF fv.runtime = None
    THEN [raised |-> "NotImplementedError", value |-> NoStr]
    ELSE IF pre
      THEN [raised |-> None, value |-> get_image_name_for_function(fv)]
      ELSE get_image_for_runtime(fv.runtime)

\* the statements of start() in source order
\* start() starting the container before anything is copied into it
StartProgramStartFirst(pre) ==
  IF pre
    THEN <<"endpoint.start", "get_network", "get_image", "create_container",
           "start_container", "get_container_ipv4", "bind_address">>
    ELSE <<"endpoint.start", "get_network", "get_image", "create_container",
           "start_container", "copy_init", "copy_code", "get_container_ipv4",
           "bind_address">>

StartProgram(pre) ==
  IF pre
    THEN <<"endpoint.start", "get_network", "get_image", "create_container",
           "start_container", "get_container_ipv4", "bind_address">>
    ELSE <<"endpoint.start", "get_network", "get_image", "create_container",
           "copy_init", "copy_code", "start_container", "get_container_ipv4",
           "bind_address">>

StartFaults ==
  {"none", "endpoint.start", "get_network", "create_container", "copy_init",
   "copy_code", "start_container", "get_container_ipv4"}

\* docker create: the name is taken, or the image is neither cached nor pullable
CreateRefused(i, image) ==
  \/ containers[i].status # "absent"
  \/ image \notin images /\ image \notin BaseImages

\* docker cp: the source path does not exist
CopyCodeRefused(fv) == ~files[get_path_for_function(fv)].code_dir

\* the statements of start() that raise, for an injected collaborator fault
StartRaises(i, fault) ==
  LET fv == executors[i].function_version
      img == get_image(fv, prebuild)
  IN  {fault}
        \cup (IF img.raised # None THEN {"get_image"} ELSE {})
        \cup (IF CreateRefused(i, img.value) THEN {"create_container"} ELSE {})
        \cup (IF CopyCodeRefused(fv) THEN {"copy_code"} ELSE {})

\* start(): the network get_container_ipv4_for_network is asked about, for
\* the network the container was created on
IpNetwork(network) == network

\* start() clearing self.ip when it did not get to resolve the address
StoredIpReset(done, reported, old) ==
  IF "get_container_ipv4" \in done THEN reported ELSE None

\* start(): self.ip after the call, for the address docker reports
StoredIp(done, reported, old) ==
  IF "get_container_ipv4" \in done THEN reported ELSE old

\* start(): executor_endpoint.container_address after the call
BoundAddressNever(done, ip, old) == old

\* start() clearing the endpoint's address when it did not get to bind it
BoundAddressReset(done, ip, old) == IF "bind_address" \in done THEN ip ELSE None

BoundAddress(done, ip, old) == IF "bind_address" \in done THEN ip ELSE old

\* DockerRuntimeExecutor.start
Start(i, env, network, addr, fault) ==
  /\ executors[i].constructed
  /\ fault \in {"none"} \cup Range(StartProgram(prebuild))
  /\ LET fv == executors[i].function_version
         prog == StartProgram(prebuild)
         raises == StartRaises(i, fault)
         steps == Completed(prog, raises)
         done == Range(steps)
         img == get_image(fv, prebuild)
         container ==
           [status |-> IF "start_container" \in done THEN "running" ELSE "created",
            image |-> img.value, network |-> network, env |-> env,
            entrypoint |-> RAPID_ENTRYPOINT,
            init |-> "copy_init" \in done,
            code |-> IF "copy_code" \in done
                       THEN files[get_path_for_function(fv)].code ELSE {},
            ip |-> IF "start_container" \in done THEN addr ELSE None]
         ip == StoredIp(done, container.ip, executors[i].ip)
     IN /\ endpoints' = [endpoints EXCEPT ![i] =
              [@ EXCEPT !.started = @ \/ "endpoint.start" \in done,
                        !.container_address = BoundAddress(done, ip, @)]]
        /\ containers' = [containers EXCEPT ![i] =
              IF "create_container" \in done THEN container ELSE @]
        /\ images' = IF "create_container" \in done THEN images \cup {img.value}
                                                      ELSE images
        /\ executors' = [executors EXCEPT ![i].ip = ip]
        /\ hist' = [hist EXCEPT ![i] =
              [ip_stored |-> @.ip_stored \/ "get_container_ipv4" \in done,
               last_start |-> IF Raised(prog, raises) = None THEN "ok" ELSE "raised",
               stopped |-> @.stopped]]
        /\ run' = IF /\ run.stage = 1 /\ run.version = fv /\ fault = "none"
                      /\ containers[i].status = "absent" /\ ~endpoints[i].started
                     THEN [stage |-> 2, version |-> fv, exec |-> i]
                     ELSE NoRun
        /\ last' = [op |-> "start", exec |-> i, steps |-> steps,
                    raised |-> Raised(prog, raises),
                    image |-> IF "get_image" \in done THEN img.value ELSE NoStr,
                    ip_network |-> IF "get_container_ipv4" \in done
                                     THEN IpNetwork(network) ELSE None]
  /\ UNCHANGED <<prebuild, files, builds>>

\* stop(): the grace period of stop_container, in seconds
STOP_TIMEOUT == 5

\* stop() leaving the container in place
StopProgramNoRemove == <<"stop_container">>

\* stop() removing the container before stopping it
StopProgramRemoveFirst == <<"remove_container", "stop_container">>

\* the statements of stop() outside its try block, in source order
StopProgram == <<"stop_container", "remove_container">>

StopFaults == {"none", "stop_container", "remove_container", "endpoint.shutdown"}

\* docker stop: NoSuchContainer for a name docker does not know
StopRefused(i) == containers[i].status = "absent"

\* stop(): the try/except around executor_endpoint.shutdown(); what stop()
\* raises when the shutdown did (shutdown_failed) or did not fail
ShutdownRaisedUncaught(shutdown_failed) ==
  IF shutdown_failed THEN "endpoint.shutdown" ELSE None

ShutdownRaised(shutdown_failed) == None

\* DockerRuntimeExecutor.stop
Stop(i, fault) ==
  /\ executors[i].constructed
  /\ LET raises == {fault} \cup (IF StopRefused(i) THEN {"stop_container"} ELSE {})
         steps == Completed(StopProgram, raises)
         done == Range(steps)
         tried == Raised(StopProgram, raises) = None
         shutdown_failed == tried /\ fault = "endpoint.shutdown"
         raised == IF tried THEN ShutdownRaised(shutdown_failed)
                            ELSE Raised(StopProgram, raises)
     IN /\ containers' = [containers EXCEPT ![i] =
              IF "remove_container" \in done THEN NoContainer
              ELSE IF "stop_container" \in done /\ @.status = "running"
                THEN [@ EXCEPT !.status = "exited", !.ip = None]
              ELSE @]
        /\ endpoints' = [endpoints EXCEPT ![i].started =
              IF tried /\ ~shutdown_failed THEN FALSE ELSE @]
        /\ last' = [op |-> "stop", exec |-> i,
                    steps |-> IF tried /\ ~shutdown_failed
                                THEN steps \o <<"endpoint.shutdown">> ELSE steps,
                    raised |-> raised, fault |-> fault,
                    logged |-> shutdown_failed,
                    timeout |-> STOP_TIMEOUT,
                    after_failed_start |-> hist[i].last_start = "raised"]
        /\ hist' = [hist EXCEPT ![i].stopped = TRUE]
        /\ run' = IF run.stage = 3 /\ run.exec = i /\ fault = "none"
                     THEN [run EXCEPT !.stage = 4] ELSE NoRun
  /\ UNCHANGED <<prebuild, files, images, executors, builds>>

\* the body of get_address for the stored ip
get_addressUnchecked(ip) == [raised |-> None, value |-> ip]

get_address(ip) ==
  IF ip = None \/ ip = ""
    THEN [raised |-> "LambdaRuntimeException", value |-> None]
    ELSE [raised |-> None, value |-> ip]

\* DockerRuntimeExecutor.get_address
GetAddress(i) ==
  /\ executors[i].constructed
  /\ last' = [op |-> "get_address", exec |-> i,
              raised |-> get_address(executors[i].ip).raised,
              value |-> get_address(executors[i].ip).value]
  /\ UNCHANGED <<prebuild, files, images, containers, executors, endpoints,
                 builds, hist, run>>

\* json.dumps of a Dict[str, str], keys in insertion order
KeyOrder == <<"key">>

RECURSIVE json_items(_, _)
json_items(payload, keys) ==
  IF keys = <<>> THEN <<>>
  ELSE <<"q", Head(keys), "q", ":", " ", "q", payload[Head(keys)], "q">>
         \o (IF Tail(keys) = <<>> THEN <<>> ELSE <<",", " ">>)
         \o json_items(payload, Tail(keys))

json_dumps(payload) ==
  <<"{">> \o json_items(payload, SelectSeq(KeyOrder, LAMBDA k : k \in DOMAIN payload))
         \o <<"}">>

\* utils.strings.truncate
truncate(data, max_length) ==
  IF Len(data) > max_length THEN SubSeq(data, 1, max_length) \o <<"...">>
                            ELSE data

\* the payload cut to the entries whose rendering fits the truncate length
InvokeArgumentTruncated(payload, max_length) ==
  [k \in {x \in DOMAIN payload :
            Len(json_dumps([y \in {x} |-> payload[y]])) <= max_length} |-> payload[k]]

\* invoke(): the argument of executor_endpoint.invoke
InvokeArgument(payload, max_length) == payload

\* the executor is Running: its container runs and its address is resolved
Running(i) == containers[i].status = "running" /\ executors[i].ip # None

\* DockerRuntimeExecutor.invoke
Invoke(i, payload, max_length) ==
  /\ executors[i].constructed
  /\ Len(endpoints[i].invocations) < MaxInvokes
  /\ endpoints' = [endpoints EXCEPT ![i].invocations =
        Append(@, InvokeArgument(payload, max_length))]
  /\ last' = [op |-> "invoke", exec |-> i, payload |-> payload,
              max_length |-> max_length,
              log |-> truncate(json_dumps(payload), max_length),
              calls |-> Len(endpoints'[i].invocations) - Len(endpoints[i].invocations),
              raised |-> None,
              running |-> Running(i)]
  /\ run' = IF run.stage = 2 /\ run.exec = i
               THEN [run EXCEPT !.stage = 3] ELSE NoRun
  /\ UNCHANGED <<prebuild, files, images, containers, executors, builds, hist>>

\* ---------------------------------------------------------------- versions
\* prepare_version pulling the base image whatever the image cache holds
PrepareProgramAlwaysPull(fv, pre, cache) ==
  <<"mkdir_target", "mkdir_code", "unzip", "get_image_for_runtime", "pull_image">>
    \o (IF pre THEN <<"check_runtime", "copy_init", "write_dockerfile">> ELSE <<>>)

\* the statements of prepare_version (and of prepare_image before its try
\* block) in source order, for the image cache at the call; copy_init is
\* the shutil.copy and chmod of the init binary, write_dockerfile the
\* rendering and writing of LAMBDA_DOCKERFILE
PrepareProgram(fv, pre, cache) ==
  <<"mkdir_target", "mkdir_code", "unzip", "get_image_for_runtime">>
    \o (IF get_image_for_runtime(fv.runtime).value \notin cache
          THEN <<"pull_image">> ELSE <<>>)
    \o (IF pre THEN <<"check_runtime", "copy_init", "write_dockerfile">> ELSE <<>>)

\* prepare_version: does Path.mkdir raise for a directory that is, or is
\* not, already present
MkdirRaisesIfPresent(present) == present

MkdirRaises(present) == FALSE

PrepareFaults ==
  {"none", "mkdir_target", "mkdir_code", "unzip", "pull_image", "copy_init",
   "write_dockerfile", "build_image"}

\* prepare_image: the try/except around CONTAINER_CLIENT.build_image; what
\* prepare_image raises when the build did or did not fail
BuildRaisedUncaught(build_failed) == IF build_failed THEN "build_image" ELSE None

BuildRaised(build_failed) == None

\* DockerRuntimeExecutor.prepare_version with prepare_image
PrepareVersion(fv, fault, part) ==
  /\ part \subseteq fv.archive
  /\ LET path == get_path_for_function(fv)
         base == get_image_for_runtime(fv.runtime)
         prog == PrepareProgram(fv, prebuild, images)
         raises == {fault}
                     \cup (IF MkdirRaises(files[path].exists)
                             THEN {"mkdir_target"} ELSE {})
                     \cup (IF MkdirRaises(files[path].code_dir)
                             THEN {"mkdir_code"} ELSE {})
                     \cup (IF base.raised # None THEN {"get_image_for_runtime"} ELSE {})
                     \cup (IF fv.runtime = None THEN {"check_runtime"} ELSE {})
         steps == Completed(prog, raises)
         done == Range(steps)
         tried == prebuild /\ Raised(prog, raises) = None
         build_failed == tried /\ fault = "build_image"
         raised == IF tried THEN BuildRaised(build_failed) ELSE Raised(prog, raises)
     IN /\ fault \in {"none", "build_image"} \cup Range(prog)
        /\ fault = "build_image" => prebuild
        /\ "unzip" \in done => part = fv.archive
        /\ Raised(prog, raises) # "unzip" /\ "unzip" \notin done => part = {}
        /\ files' = [files EXCEPT ![path] =
              [exists |-> @.exists \/ "mkdir_target" \in done,
               code_dir |-> @.code_dir \/ "mkdir_code" \in done,
               code |-> @.code \cup part,
               dockerfile |-> @.dockerfile \/ "write_dockerfile" \in done]]
        /\ images' = images
              \cup (IF "pull_image" \in done THEN {base.value} ELSE {})
              \cup (IF tried /\ ~build_failed
                      THEN {get_image_name_for_function(fv)} ELSE {})
        /\ builds' = [builds EXCEPT ![fv] =
              IF tried THEN (IF build_failed THEN "failed" ELSE "ok") ELSE @]
        /\ last' = [op |-> "prepare_version", version |-> fv,
                    steps |-> IF tried /\ ~build_failed
                                THEN steps \o <<"build_image">> ELSE steps,
                    raised |-> raised, fault |-> fault,
                    logged |-> build_failed,
                    cached |-> base.value \in images,
                    existed |-> files[path].code_dir]
        /\ run' = IF fault = "none"
                     THEN [stage |-> 1, version |-> fv, exec |-> None] ELSE NoRun
  /\ UNCHANGED <<prebuild, containers, executors, endpoints, hist>>

RmtreeFaults == {"none", "OSError"}

\* shutil.rmtree: the OSError it raises, None when the tree was removed
RmtreeError(path, fault) ==
  IF ~files[path].exists THEN "FileNotFoundError"
  ELSE IF fault = "OSError" THEN "OSError" ELSE None

\* cleanup_version: the try/except OSError around shutil.rmtree; what
\* cleanup_version raises for the error rmtree raised
RmtreeRaisedUncaught(error) == error

RmtreeRaised(error) == None

\* DockerRuntimeExecutor.cleanup_version
CleanupVersion(fv, fault, kept, image_fault) ==
  /\ fault \in RmtreeFaults
  /\ image_fault \in {"none", "remove_image"}
  /\ LET path == get_path_for_function(fv)
         error == RmtreeError(path, fault)
         attempted == prebuild /\ RmtreeRaised(error) = None
         image_failed == attempted /\ image_fault = "remove_image"
         raised == IF RmtreeRaised(error) # None THEN RmtreeRaised(error)
                   ELSE IF image_failed THEN "remove_image" ELSE None
     IN /\ image_fault = "remove_image" => prebuild
        /\ kept \subseteq files[path].code
        /\ error # "OSError" => kept = {}
        /\ files' = [files EXCEPT ![path] =
              IF error = None THEN NoDir
              ELSE IF error = "OSError" THEN [@ EXCEPT !.code = kept]
              ELSE @]
        /\ images' = IF attempted /\ ~image_failed
                        THEN images \ {get_image_name_for_function(fv)}
                        ELSE images
        /\ last' = [op |-> "cleanup_version", version |-> fv,
                    error |-> error, attempted |-> attempted,
                    image_failed |-> image_failed, raised |-> raised]
        /\ run' = IF /\ run.stage = 4 /\ run.version = fv
                      /\ fault = "none" /\ image_fault = "none"
                     THEN [run EXCEPT !.stage = 5] ELSE NoRun
  /\ UNCHANGED <<prebuild, containers, executors, endpoints, builds, hist>>

\* ---------------------------------------------------------------- lifecycle specification
\* one executor with every collaborator fault of start, stop and invoke; the
\* version store is prepared and cleaned up with the build as its only fault
\* the function versions something exists for: a staged directory, a build,
\* a derived image or an executor
Deployed ==
  {v \in Versions :
     \/ files[get_path_for_function(v)].exists
     \/ builds[v] # "none"
     \/ get_image_name_for_function(v) \in images
     \/ \E i \in Execs : executors[i].constructed /\ executors[i].function_version = v}

\* the lifecycle specification deploys one function version at a time
Alone(fv) == Deployed \subseteq {fv}

Next ==
  \/ \E i \in MainExecs, fv \in MainVersions, port \in MainPorts :
        Alone(fv) /\ Construct(i, fv, port)
  \/ \E i \in MainExecs, env \in Envs, network \in Networks, addr \in IPs,
        fault \in StartFaults : Start(i, env, network, addr, fault)
  \/ \E i \in MainExecs, fault \in StopFaults : Stop(i, fault)
  \/ \E i \in MainExecs : GetAddress(i)
  \/ \E i \in MainExecs, payload \in Payloads, max_length \in TruncLens :
        Invoke(i, payload, max_length)
  \/ \E fv \in MainVersions, fault \in {"none", "build_image"} :
        Alone(fv) /\ PrepareVersion(fv, fault, fv.archive)
  \/ \E fv \in MainVersions :
        Alone(fv) /\ CleanupVersion(fv, "none", {}, "none")

Spec == Init /\ [][Next]_vars

\* ---------------------------------------------------------------- version-store specification
\* prepare_version and cleanup_version with every collaborator fault
VersionNext ==
  \/ \E fv \in Versions, fault \in PrepareFaults :
        \E part \in SUBSET fv.archive :
          /\ Cardinality(Deployed \cup {fv}) <= MaxDeployed
          /\ PrepareVersion(fv, fault, part)
  \/ \E fv \in Versions, fault \in RmtreeFaults,
        image_fault \in {"none", "remove_image"} :
        \E kept \in SUBSET fv.archive : CleanupVersion(fv, fault, kept, image_fault)

VersionSpec == Init /\ [][VersionNext]_vars

\* ---------------------------------------------------------------- store specification
\* runtime identifiers handed to get_image_for_runtime
Runtimes == DOMAIN IMAGE_MAPPING \cup {"ruby1.0", "", None}

\* one call of get_image_for_runtime, in any state of the store
Resolve(runtime) ==
  /\ LET image == get_image_for_runtime(runtime)
     IN last' = [op |-> "get_image_for_runtime", runtime |-> runtime,
                 raised |-> image.raised, value |-> image.value]
  /\ UNCHANGED <<prebuild, files, images, containers, executors, endpoints,
                 builds, hist, run>>

\* any number of function versions prepared and cleaned up side by side, with
\* the image build as the only injected fault, and get_image_for_runtime
\* called in between
StoreNext ==
  \/ \E fv \in Versions, fault \in {"none", "build_image"} :
        PrepareVersion(fv, fault, fv.archive)
  \/ \E fv \in Versions : CleanupVersion(fv, "none", {}, "none")
  \/ \E runtime \in Runtimes : Resolve(runtime)

StoreSpec == Init /\ [][StoreNext]_vars

\* ---------------------------------------------------------------- instances specification
\* several executors of one function version are constructed, started and
\* stopped in any interleaving; the listener start is the only injected fault
ConcNext ==
  \/ \E i \in Execs, port \in Ports : Construct(i, fvPy, port)
  \/ \E i \in Execs, env \in Envs, addr \in IPs,
        fault \in {"none", "endpoint.start"} : Start(i, env, "bridge", addr, fault)
  \/ \E i \in Execs : Stop(i, "none")
  \/ Alone(fvPy) /\ PrepareVersion(fvPy, "none", fvPy.archive)

ConcSpec == Init /\ [][ConcNext]_vars

\* ---------------------------------------------------------------- naming specification
\* the derived names of two function versions
Derive(a, b) ==
  /\ last.op = "none"
  /\ last' = [op |-> "derive", a |-> a, b |-> b,
              path_a |-> get_path_for_function(a),
              path_b |-> get_path_for_function(b),
              image_a |-> get_image_name_for_function(a),
              image_b |-> get_image_name_for_function(b)]
  /\ UNCHANGED <<prebuild, files, images, containers, executors, endpoints,
                 builds, hist, run>>

NamesNext == \E a \in NameVersions, b \in NameVersions : Derive(a, b)

NamesSpec == Init /\ [][NamesNext]_vars

\* ---------------------------------------------------------------- properties
\* C1: get_address() raises LambdaRuntimeException and returns no value
\* whenever no start() of the instance has yet stored a container IP, be it
\* directly after construction or after a start() that failed before that.
C1_NotReadyBeforeIpStored ==
  last.op = "get_address" /\ ~hist[last.exec].ip_stored
    => last.raised = "LambdaRuntimeException" /\ last.value = None

\* get_address() called after a start() that started the endpoint and then failed
C1_Witness ==
  /\ last.op = "get_address"
  /\ ~hist[last.exec].ip_stored
  /\ hist[last.exec].last_start = "raised"
  /\ endpoints[last.exec].started
  /\ last.raised = "LambdaRuntimeException"

\* C2: after a start() that returns without raising, get_address() returns a
\* non-empty address, which is the IPv4 docker reports for the instance's
\* container on the network it was created on, and the endpoint's
\* container_address holds the same value.
C2_AddressAfterStart ==
  last.op = "start" /\ last.raised = None
    => LET i == last.exec
           address == get_address(executors[i].ip)
       IN /\ address.raised = None
          /\ address.value \in IPs
          /\ containers[i].status = "running"
          /\ address.value = containers[i].ip
          /\ endpoints[i].container_address = address.value

\* a start() that ran to its end and whose container docker gave 10.0.0.3
C2_Witness ==
  /\ last.op = "start" /\ last.raised = None
  /\ "bind_address" \in Range(last.steps)
  /\ containers[last.exec].ip = "10.0.0.3"
  /\ executors[last.exec].ip = "10.0.0.3"

\* C3: stop() on a started instance whose container stop and remove succeed
\* returns without raising when the endpoint shutdown raises, and the
\* container is then stopped and removed.
C3_StopSurvivesShutdownError ==
  last.op = "stop" /\ last.logged
    => /\ last.raised = None
       /\ last.steps = <<"stop_container", "remove_container">>
       /\ containers[last.exec] = NoContainer

\* stop() of an instance whose last start() succeeded, with a failing shutdown
C3_Witness ==
  /\ last.op = "stop" /\ last.logged
  /\ hist[last.exec].last_start = "ok"
  /\ last.raised = None
  /\ endpoints[last.exec].started

\* C4: a stop() that follows a start() that raised, and meets no collaborator
\* fault of its own, leaves no resource of the instance allocated: the
\* endpoint listener is shut down and the container is removed.
C4_StopReclaimsAfterFailedStart ==
  last.op = "stop" /\ last.after_failed_start /\ last.fault = "none"
    => /\ ~endpoints[last.exec].started
       /\ containers[last.exec].status = "absent"

\* C5: with pre-building enabled and the version's image build failed, a
\* start() creates the container from the base runtime image and copies the
\* init binary and the code tree into it before starting it.
C5_FallbackAfterFailedBuild ==
  ( /\ last.op = "start" /\ prebuild
    /\ builds[executors[last.exec].function_version] = "failed"
    /\ "get_image" \in Range(last.steps) )
    => /\ last.image =
            get_image_for_runtime(executors[last.exec].function_version.runtime).value
       /\ "start_container" \in Range(last.steps)
            => {"copy_init", "copy_code"} \subseteq Range(last.steps)

\* C6: invoke() on an instance that is not Running raises the not-ready
\* error and hands nothing to the executor endpoint.
C6_InvokeFailsFastUnlessRunning ==
  last.op = "invoke" /\ ~last.running
    => last.raised = "LambdaRuntimeException" /\ last.calls = 0

\* C7: invoke(payload) hands the executor endpoint exactly one invoke call,
\* whose argument is the payload unchanged, for every truncate length.
C7_PayloadForwardedUnchanged ==
  last.op = "invoke"
    => LET calls == endpoints[last.exec].invocations
       IN /\ last.calls = 1
          /\ calls[Len(calls)] = last.payload

\* an invoke whose logged payload was truncated
C7_Witness ==
  /\ last.op = "invoke"
  /\ Len(json_dumps(last.payload)) > last.max_length
  /\ last.log # json_dumps(last.payload)
  /\ endpoints[last.exec].invocations[1] = last.payload
  /\ DOMAIN last.payload # {}

\* C8: distinct (qualified identifier, internal revision) pairs have
\* distinct artifact paths and distinct image names, and equal pairs have
\* equal ones.
SameVersion(a, b) ==
  a.qualified_arn = b.qualified_arn /\ a.internal_revision = b.internal_revision

C8_NamesInjective ==
  last.op = "derive"
    => /\ SameVersion(last.a, last.b)
            => last.path_a = last.path_b /\ last.image_a = last.image_b
       /\ ~SameVersion(last.a, last.b)
            => last.path_a # last.path_b /\ last.image_a # last.image_b

\* the statements of prepare_version in source order, the build included
PrepareOrder ==
  <<"mkdir_target", "mkdir_code", "unzip", "get_image_for_runtime", "pull_image",
    "check_runtime", "copy_init", "write_dockerfile", "build_image">>

StepIndex(step) == CHOOSE k \in 1..Len(PrepareOrder) : PrepareOrder[k] = step

\* C9: a failing image build never makes prepare_version raise: it returns
\* with the code staged and the base image cached; a failure of directory
\* creation, extraction, base-image resolution or pull reaches the caller
\* and no later step runs.
C9_BuildFailureNotFatal ==
  last.op = "prepare_version"
    => LET fv == last.version
           dir == files[get_path_for_function(fv)]
           fatal == {"mkdir_target", "mkdir_code", "unzip",
                     "get_image_for_runtime", "pull_image"}
       IN /\ last.logged
               => /\ last.raised = None
                  /\ dir.exists /\ dir.code_dir /\ fv.archive \subseteq dir.code
                  /\ get_image_for_runtime(fv.runtime).value \in images
          /\ last.fault \in fatal => last.raised \in fatal
          /\ last.raised \in fatal
               => \A k \in 1..Len(last.steps) :
                     StepIndex(last.steps[k]) < StepIndex(last.raised)

\* a prepare_version whose build failed
C9_Witness ==
  /\ last.op = "prepare_version" /\ last.logged
  /\ last.raised = None
  /\ "write_dockerfile" \in Range(last.steps)
  /\ get_image_name_for_function(last.version) \notin images

\* C10: cleanup_version never raises because of the staged directory; with
\* pre-building disabled it returns normally, with pre-building enabled it
\* attempts the image removal also after a failed directory removal and
\* raises exactly when the image removal raises.
C10_CleanupSwallowsDirErrors ==
  last.op = "cleanup_version"
    => /\ last.raised \in {None, "remove_image"}
       /\ ~prebuild => last.raised = None /\ ~last.attempted
       /\ prebuild => last.attempted
       /\ last.raised = "remove_image" <=> last.image_failed

\* a cleanup_version whose directory removal failed and whose image removal ran
C10_Witness ==
  /\ last.op = "cleanup_version"
  /\ last.error = "OSError"
  /\ prebuild /\ last.attempted
  /\ last.raised = None

\* C11: with pre-building disabled and no collaborator failing, the calls
\* prepare_version(v), start(env), invoke(p), stop(), cleanup_version(v) made
\* in this order for a version with a mapped runtime and an instance that has
\* no container and no listener yet all return without raising, the endpoint
\* receives exactly the payload p, and at the end the staged directory of v
\* does not exist, the container is removed and the endpoint is shut down.
C11_EndToEnd ==
  (~prebuild /\ run.stage > 0 /\ run.version.runtime \in DOMAIN IMAGE_MAPPING)
    => /\ (run.stage = 1 /\ last.op = "prepare_version") => last.raised = None
       /\ (run.stage = 2 /\ last.op = "start") => last.raised = None
       /\ (run.stage = 3 /\ last.op = "invoke")
            => /\ last.raised = None
               /\ last.calls = 1
               /\ Len(endpoints[run.exec].invocations) > 0
               /\ endpoints[run.exec].invocations[Len(endpoints[run.exec].invocations)]
                    = last.payload
       /\ (run.stage = 4 /\ last.op = "stop") => last.raised = None
       /\ (run.stage = 5 /\ last.op = "cleanup_version")
            => /\ last.raised = None
               /\ ~files[get_path_for_function(run.version)].exists
               /\ containers[run.exec].status = "absent"
               /\ ~endpoints[run.exec].started

\* the five calls were made in order and the last one returned
C11_Witness ==
  /\ ~prebuild /\ run.stage = 5
  /\ last.op = "cleanup_version" /\ last.raised = None
  /\ Len(endpoints[run.exec].invocations) > 0
  /\ ~files[get_path_for_function(run.version)].exists

\* C12: prepare_version is repeatable: called again when the staged directory
\* and its code/ subdirectory already exist, with no collaborator failing and
\* a runtime that has an image mapping, it returns without raising; and after
\* every call that returned, code/ holds exactly the archive's contents.
C12_PrepareRepeatable ==
  last.op = "prepare_version"
    => LET dir == files[get_path_for_function(last.version)]
       IN /\ (/\ last.existed /\ last.fault = "none"
               /\ last.version.runtime \in DOMAIN IMAGE_MAPPING) => last.raised = None
          /\ last.raised = None
               => dir.exists /\ dir.code_dir /\ dir.code = last.version.archive

\* a second prepare_version of a version whose code/ directory existed
C12_Witness ==
  /\ last.op = "prepare_version" /\ last.existed
  /\ last.raised = None
  /\ "unzip" \in Range(last.steps)
  /\ files[get_path_for_function(last.version)].code = last.version.archive

\* C13: get_image_for_runtime(runtime) returns the fixed image prefix followed
\* by the mapping entry for every runtime that has an entry, raises the
\* unsupported-runtime error for every runtime without one, and changes no
\* state in either case.
C13_ImageForRuntime ==
  [][last'.op = "get_image_for_runtime"
       => /\ last'.runtime \in DOMAIN IMAGE_MAPPING
               => /\ last'.raised = None
                  /\ last'.value = <<IMAGE_PREFIX, IMAGE_MAPPING[last'.runtime]>>
          /\ last'.runtime \notin DOMAIN IMAGE_MAPPING
               => last'.raised = "ValueError" /\ last'.value = NoStr
          /\ UNCHANGED <<prebuild, files, images, containers, executors,
                         endpoints, builds>>]_vars

\* a runtime without a mapping entry was refused
C13_Witness ==
  /\ last.op = "get_image_for_runtime"
  /\ last.runtime = "ruby1.0"
  /\ last.raised = "ValueError"

\* C14: within one start() the steps occur in this order, each only after the
\* previous one succeeded: endpoint listener started, network resolved,
\* container created under the instance's id on that network, (only with
\* pre-building disabled) init binary copied then code copied, container
\* started, IP resolved on the network used at creation, IP bound into the
\* endpoint. With pre-building disabled the container is never started before
\* both copies; with pre-building enabled nothing is copied.
C14_StartOrder ==
  last.op = "start"
    => LET order == <<"endpoint.start", "get_network", "create_container">>
                      \o (IF prebuild THEN <<>> ELSE <<"copy_init", "copy_code">>)
                      \o <<"start_container", "get_container_ipv4", "bind_address">>
           steps == SelectSeq(last.steps, LAMBDA x : x # "get_image")
           n == Len(steps)
           container == containers[last.exec]
       IN /\ n <= Len(order)
          /\ \A k \in 1..n : steps[k] = order[k]
          /\ last.raised = None <=> n = Len(order)
          /\ "create_container" \in Range(steps)
               => /\ container.status # "absent"
                  /\ container.network \in Networks
                  /\ prebuild => ~container.init /\ container.code = {}
                  /\ container.status = "running" /\ ~prebuild
                       => container.init /\ "copy_code" \in Range(steps)
          /\ "get_container_ipv4" \in Range(steps)
               => last.ip_network = container.network
          /\ "bind_address" \in Range(steps)
               => /\ executors[last.exec].ip = container.ip
                  /\ endpoints[last.exec].container_address = container.ip

\* a start() with pre-building disabled that ran every step
C14_Witness ==
  /\ last.op = "start" /\ ~prebuild
  /\ last.raised = None
  /\ Len(last.steps) = 9
  /\ containers[last.exec].status = "running"
  /\ containers[last.exec].init
  /\ containers[last.exec].code # {}

\* C15: within one stop() the container is stopped, with a grace period of
\* 5, before it is removed, and the endpoint shutdown is attempted only after
\* the container was removed: stop() never shuts the endpoint down while the
\* instance's container still exists.
C15_StopOrder ==
  last.op = "stop"
    => LET order == <<"stop_container", "remove_container", "endpoint.shutdown">>
           n == Len(last.steps)
           attempted == "endpoint.shutdown" \in Range(last.steps) \/ last.logged
       IN /\ n <= Len(order)
          /\ \A k \in 1..n : last.steps[k] = order[k]
          /\ last.timeout = 5
          /\ attempted
               => /\ n >= 2 /\ last.steps[1] = "stop_container"
                  /\ last.steps[2] = "remove_container"
                  /\ containers[last.exec].status = "absent"

\* a stop() that stopped and removed the container and shut the endpoint down
C15_Witness ==
  /\ last.op = "stop" /\ last.raised = None
  /\ last.steps = <<"stop_container", "remove_container", "endpoint.shutdown">>
  /\ containers[last.exec].status = "absent"
  /\ ~endpoints[last.exec].started

\* C16: start() performs no rollback: when one of its steps raises, the
\* exception reaches the caller and every effect of the earlier steps stays
\* in place (the endpoint listener stays started, a created container stays),
\* while the stored IP and the endpoint's container_address keep the values
\* they had before the call.
C16_StartNoRollback ==
  [][(last'.op = "start" /\ last'.raised # None)
       => LET i == last'.exec
              done == Range(last'.steps)
          IN /\ last'.raised \in Range(StartProgram(prebuild)) \ done
             /\ "endpoint.start" \in done => endpoints'[i].started
             /\ endpoints[i].started => endpoints'[i].started
             /\ "create_container" \in done
                  => /\ containers'[i].status =
                          (IF "start_container" \in done THEN "running" ELSE "created")
                     /\ containers'[i].init = ("copy_init" \in done)
             /\ "create_container" \notin done => containers'[i] = containers[i]
             /\ executors'[i].ip = executors[i].ip
             /\ endpoints'[i].container_address = endpoints[i].container_address]_vars

\* a repeated start() that raised after starting the listener and the
\* container, with the address of the earlier start() still stored
C16_Witness ==
  /\ last.op = "start" /\ last.raised = "get_container_ipv4"
  /\ endpoints[last.exec].started
  /\ containers[last.exec].status = "running"
  /\ executors[last.exec].ip # None
  /\ endpoints[last.exec].container_address = executors[last.exec].ip

\* C17: under any interleaving of construction, start() and stop() of several
\* executor instances, no two instances that have been constructed and not
\* yet stopped hold the same TCP port for their endpoint; the port is picked
\* as a currently free port at construction and bound only when start()
\* starts the endpoint listener.
C17_PortsExclusive ==
  \A i \in Execs, j \in Execs :
    (/\ i # j
     /\ executors[i].constructed /\ executors[j].constructed
     /\ ~hist[i].stopped /\ ~hist[j].stopped)
      => endpoints[i].port # endpoints[j].port

\* C18: with pre-building enabled, for any two prepared function versions with
\* distinct (identity, revision) pairs, two revisions of one identity
\* included, prepare_version and cleanup_version of one never overwrite or
\* remove the staged directory or the derived image of the other: after
\* cleanup_version of the first, the second's directory and derived image
\* still exist.
C18_VersionsIsolated ==
  [][(/\ prebuild /\ last'.op \in {"prepare_version", "cleanup_version"}
      /\ last'.op = "cleanup_version"
           => /\ files[get_path_for_function(last'.version)].exists
              /\ builds[last'.version] = "ok")
       => \A w \in Versions :
            (/\ ~SameVersion(w, last'.version)
             /\ files[get_path_for_function(w)].exists
             /\ builds[w] = "ok"
             /\ get_image_name_for_function(w) \in images)
              => /\ files'[get_path_for_function(w)] = files[get_path_for_function(w)]
                 /\ get_image_name_for_function(w) \in images']_vars

\* C19: prepare_version pulls the base image exactly when its reference is
\* absent from the local image cache at the point of the check: a cached base
\* image is not pulled, an absent one is, and after every prepare_version that
\* returned the base image is in the cache.
C19_PullIffAbsent ==
  last.op = "prepare_version"
    => LET reached == "get_image_for_runtime" \in Range(last.steps)
           pulled == "pull_image" \in Range(last.steps) \/ last.raised = "pull_image"
           base == get_image_for_runtime(last.version.runtime)
       IN /\ reached => (pulled <=> ~last.cached)
          /\ ~reached => ~pulled
          /\ last.raised = None => reached /\ base.value \in images

\* a prepare_version that found the base image cached and did not pull it
C19_Witness ==
  /\ last.op = "prepare_version" /\ last.cached
  /\ last.raised = None
  /\ "pull_image" \notin Range(last.steps)
  /\ get_image_for_runtime(last.version.runtime).value \in images

\* C20: the stored container IP of an instance is monotone: once a start()
\* has stored a non-empty IP, no later operation (invoke, stop, a failing
\* repeated start, get_address) resets it to absent, so get_address() after
\* stop() still returns the last resolved address instead of the not-ready
\* error; and at every operation boundary the endpoint's container_address
\* is either unset together with the IP or equal to it.
C20_IpMonotone ==
  [][\A i \in Execs :
       /\ executors[i].ip # None => executors'[i].ip # None
       /\ (executors[i].ip # None /\ last'.op # "start")
            => executors'[i].ip = executors[i].ip
       /\ endpoints'[i].container_address = executors'[i].ip
       /\ (last'.op = "get_address" /\ last'.exec = i /\ executors[i].ip # None)
            => last'.raised = None /\ last'.value = executors[i].ip]_vars

\* get_address() after stop() removed the container returns the address the
\* start() before it had resolved
C20_Witness ==
  /\ last.op = "get_address" /\ last.raised = None
  /\ hist[last.exec].stopped
  /\ containers[last.exec].status = "absent"
  /\ last.value \in IPs
  /\ endpoints[last.exec].container_address = last.value

====
